---- MODULE Spec2Model ----
(***************************************************************************)
(* Consensus bridge (PosHandler) and block-retrieval request correlation   *)
(* (BlockRetrievalRpcRequest) of conflux-rust.                             *)
(*                                                                         *)
(* The specifications of the module:                                      *)
(*   SpecRequest  one block-retrieval request, its completion sink(s), and *)
(*                the three resolving events;                              *)
(*   SpecRequestFair  SpecRequest with the timer's weak fairness;          *)
(*   SpecInit     concurrent PosHandler::initialize calls, step by step;   *)
(*   SpecInitFile the same calls while the validator-set file changes;     *)
(*   SpecLedger   a bridge, new or Ready, queried while the PoS ledger      *)
(*                grows;                                                   *)
(*   SpecEvents   the staking-event queries over blocks with events;       *)
(*   SpecRewards  the reward query over epochs and their reward events;    *)
(*   SpecHandle   incoming block-retrieval requests handed to the worker.  *)
(***************************************************************************)
EXTENDS Integers, Sequences, FiniteSets, TLC

VARIABLES
    \* ---- BlockRetrievalRpcRequest and its oneshot channels
    response_tx,    \* the request's sink holder: NoSink or the id of a sender
    sinks,          \* number of oneshot channels created so far
    rx,             \* rx[s]: the receiving end of channel s, listening or dropped
    delivered,      \* delivered[s]: the outcomes sent into channel s, in order
    tx_dropped,     \* senders dropped without a send (their receiver sees Canceled)
    phase,          \* New, Sent, ResolvedOk, ResolvedErr, TimedOut
    sent_tx,        \* the holder's content when the request was dispatched
    timer,          \* unarmed, armed, fired
    resp,           \* the matching response: none, arrived
    nerr,           \* number of explicit notify_error calls made
    last,           \* the last call on the request: [op, arg]
    own_request_id, \* the request's correlation id (request_id)
    own_request,    \* the request's retrieval parameters (request)
    timeout,        \* the request's timeout field
    \* ---- PosHandler and the initialize calls in progress
    pos,            \* OnceCell of the ledger view: NoCall or the call that set it
    diem_handler,   \* OnceCell of the runtime handles: NoCall or the call
    pc,             \* pc[c]: where initialize call c stands
    ret,            \* ret[c]: what call c returned
    runtimes,       \* the calls that started a PoS consensus runtime
    registered,     \* the calls that handed the PoW engine to their runtime
    file_ok,        \* the initial-validator-set file can be read and parsed
    \* ---- the committed PoS ledger behind the ledger view
    chain,          \* the committed blocks, in commit order
    storage_err,    \* reads of the ledger store fail
    ask,            \* the query a caller makes: [op, arguments]
    qres,           \* the last query on the bridge and its result
    event_log,      \* the contract events of the ledger, in commit order
    rewards,        \* the epochs whose reward event the PoS storage holds
    enable_height,  \* PosHandler.enable_height, fixed at construction
    \* ---- the retrieval-worker channel of the serving side
    block_retrieval_tx, \* per peer address, the work items pushed, in order
    receiver_alive, \* the worker still holds the channel's receiving end
    handled,        \* the last incoming request handled and what handle returned
    \* ---- the process
    panic           \* "none", or the site of the panic that killed the process

fieldVars == <<own_request_id, own_request, timeout>>

reqVars == <<response_tx, sinks, rx, delivered, tx_dropped, phase, sent_tx,
             timer, resp, nerr, last, fieldVars>>

initVars == <<pos, diem_handler, pc, ret, runtimes, registered, file_ok>>

ledgerVars == <<chain, storage_err, ask, qres, event_log, rewards,
               enable_height>>

handleVars == <<block_retrieval_tx, receiver_alive, handled>>

vars == <<reqVars, initVars, ledgerVars, handleVars, panic>>

----------------------------------------------------------------------------
(* Bounds of the model.                                                    *)

MaxSinks == 2
MaxErrors == 2
MaxCalls == 2
MaxChain == 3
MaxEpoch == 1
MaxRound == 1
MaxPreds == 2
MaxEvents == 2
MaxHeight == 2
MaxQueue == 2

----------------------------------------------------------------------------
(* Request correlation: src/core/src/pos/protocol/message/block_retrieval.rs *)

NoSink == 0

Errors == {"Timeout", "Cancelled", "PeerError"}

Ok(v) == [kind |-> "Ok", val |-> v]
Err(e) == [kind |-> "Err", val |-> e]

Terminal == {"ResolvedOk", "ResolvedErr", "TimedOut"}

\* The durations a timeout may be, and the protocol configurations a caller
\* may pass to timeout(): each carries a request timeout of its own.
Durations == {"5s", "30s"}
ProtocolConfigurations == [request_timeout : Durations]

\* oneshot::Sender::send: the value reaches the receiver unless the receiving
\* end was dropped, and then send returns Err.
send_succeeds(tx) == rx[tx] = "listening"

\* Option::take on the holder followed by a send whose result is ignored.
take_and_send(v) ==
    /\ response_tx' = NoSink
    /\ delivered' = IF response_tx # NoSink /\ send_succeeds(response_tx)
                    THEN [delivered EXCEPT ![response_tx] = Append(@, v)]
                    ELSE delivered

\* A plausible slip: the holder is read but not emptied.
notify_error_keeps_sink(error) ==
    /\ response_tx' = response_tx
    /\ IF response_tx = NoSink
       THEN delivered' = delivered /\ panic' = panic
       ELSE IF send_succeeds(response_tx)
            THEN /\ delivered' = [delivered EXCEPT
                                    ![response_tx] = Append(@, Err(error))]
                 /\ panic' = panic
            ELSE delivered' = delivered /\ panic' = "notify_error"

\* fn notify_error(&mut self, error): take the sender out of the holder; if
\* there was one, send Err(error) and expect the send to succeed.
notify_error(error) ==
    /\ response_tx' = NoSink
    /\ IF response_tx = NoSink
       THEN delivered' = delivered /\ panic' = panic
       ELSE IF send_succeeds(response_tx)
            THEN /\ delivered' = [delivered EXCEPT
                                    ![response_tx] = Append(@, Err(error))]
                 /\ panic' = panic
            ELSE delivered' = delivered /\ panic' = "notify_error"

\* A slip: a holder that is full keeps its sender and the new one is dropped.
set_response_notification_keeps_first(res_tx) ==
    /\ response_tx' = IF response_tx = NoSink THEN res_tx ELSE response_tx
    /\ tx_dropped' = IF response_tx = NoSink THEN tx_dropped
                     ELSE tx_dropped \cup {res_tx}

\* fn set_response_notification(&mut self, res_tx): the holder is overwritten;
\* a sender it held is dropped unsent.
set_response_notification(res_tx) ==
    /\ response_tx' = res_tx
    /\ tx_dropped' = IF response_tx = NoSink THEN tx_dropped
                     ELSE tx_dropped \cup {response_tx}

\* The request leaves Sent on the first resolving event and never leaves a
\* terminal state.
resolve(to) == IF phase = "Sent" THEN to ELSE phase

\* The sender creates a oneshot channel and registers its sending end, before
\* the request is dispatched.
Register ==
    /\ panic = "none"
    /\ phase = "New"
    /\ sinks < MaxSinks
    /\ sinks' = sinks + 1
    /\ rx' = Append(rx, "listening")
    /\ delivered' = Append(delivered, <<>>)
    /\ set_response_notification(sinks + 1)
    /\ last' = [op |-> "set_response_notification", arg |-> "sink"]
    /\ UNCHANGED <<phase, sent_tx, timer, resp, nerr, panic>>
    /\ UNCHANGED <<fieldVars, initVars, ledgerVars, handleVars>>

\* The request is dispatched and a timer armed for timeout().
Send ==
    /\ panic = "none"
    /\ phase = "New"
    /\ phase' = "Sent"
    /\ sent_tx' = response_tx
    /\ timer' = "armed"
    /\ last' = [op |-> "send", arg |-> "none"]
    /\ UNCHANGED <<response_tx, sinks, rx, delivered, tx_dropped, resp, nerr,
                   panic>>
    /\ UNCHANGED <<fieldVars, initVars, ledgerVars, handleVars>>

\* An explicit error (peer failure, cancellation) is delivered.
NotifyError(e) ==
    /\ panic = "none"
    /\ nerr < MaxErrors
    /\ nerr' = nerr + 1
    /\ notify_error(e)
    /\ phase' = IF panic' = "none" THEN resolve("ResolvedErr") ELSE phase
    /\ last' = [op |-> "notify_error", arg |-> e]
    /\ UNCHANGED <<sinks, rx, tx_dropped, sent_tx, timer, resp>>
    /\ UNCHANGED <<fieldVars, initVars, ledgerVars, handleVars>>

\* The timer armed at dispatch fires: the timeout error is delivered through
\* notify_error.
TimerFires ==
    /\ panic = "none"
    /\ timer = "armed"
    /\ timer' = "fired"
    /\ notify_error("Timeout")
    /\ phase' = IF panic' = "none" THEN resolve("TimedOut") ELSE phase
    /\ last' = [op |-> "timer", arg |-> "Timeout"]
    /\ UNCHANGED <<sinks, rx, tx_dropped, sent_tx, resp, nerr>>
    /\ UNCHANGED <<fieldVars, initVars, ledgerVars, handleVars>>

\* The matching response arrives: the sink, if still in the holder, is taken
\* and resolved with it; a response that finds the holder empty is dropped.
ResponseArrives ==
    /\ panic = "none"
    /\ phase # "New"
    /\ resp = "none"
    /\ resp' = "arrived"
    /\ take_and_send(Ok("response"))
    /\ phase' = resolve("ResolvedOk")
    /\ last' = [op |-> "response", arg |-> "response"]
    /\ UNCHANGED <<sinks, rx, tx_dropped, sent_tx, timer, nerr, panic>>
    /\ UNCHANGED <<fieldVars, initVars, ledgerVars, handleVars>>

\* A slip: the timeout is looked up in the configuration passed in.
Timeout_from_conf(conf) ==
    /\ panic = "none"
    /\ last' = [op |-> "timeout", arg |-> conf, ret |-> conf.request_timeout]
    /\ UNCHANGED <<response_tx, sinks, rx, delivered, tx_dropped, phase,
                   sent_tx, timer, resp, nerr, panic>>
    /\ UNCHANGED <<fieldVars, initVars, ledgerVars, handleVars>>

\* fn timeout(&self, _conf): the request's own timeout field is returned.
Timeout(conf) ==
    /\ panic = "none"
    /\ last' = [op |-> "timeout", arg |-> conf, ret |-> timeout]
    /\ UNCHANGED <<response_tx, sinks, rx, delivered, tx_dropped, phase,
                   sent_tx, timer, resp, nerr, panic>>
    /\ UNCHANGED <<fieldVars, initVars, ledgerVars, handleVars>>

\* The waiter stops listening: it drops the receiving end of its channel.
WaiterDrops(s) ==
    /\ panic = "none"
    /\ rx[s] = "listening"
    /\ rx' = [rx EXCEPT ![s] = "dropped"]
    /\ UNCHANGED <<response_tx, sinks, delivered, tx_dropped, phase, sent_tx,
                   timer, resp, nerr, last, panic>>
    /\ UNCHANGED <<fieldVars, initVars, ledgerVars, handleVars>>

----------------------------------------------------------------------------
(* The committed PoS ledger and the ledger view:                           *)
(* src/core/src/consensus/pos_handler.rs, PosConnection                    *)

\* PosBlockId values. A block's id is its place in commit order; the ids
\* above the chain's length are ids of blocks that are not committed.
Hashes == 0..MaxChain

None == [some |-> FALSE]
Some(v) == [some |-> TRUE, val |-> v]

\* The PoW block a PoS block anchors, named after the PoS block's place.
PivotOf(n) == <<"pow", n>>

GenesisBlock == [hash |-> 0, epoch |-> 0, round |-> 0,
                 pivot_decision |-> PivotOf(0), version |-> 0]

Tip == chain[Len(chain)]

\* DiemDB::get_committed_block_by_hash: Ok(block), or Err when the block is
\* not in the ledger or the store cannot be read.
get_committed_block_by_hash(h) ==
    IF storage_err THEN [ok |-> FALSE, err |-> "storage"]
    ELSE IF \E i \in 1..Len(chain) : chain[i].hash = h
         THEN [ok |-> TRUE,
               val |-> chain[CHOOSE i \in 1..Len(chain) : chain[i].hash = h]]
         ELSE [ok |-> FALSE, err |-> "not found"]

\* PosConnection::get_committed_block: `.ok()?` turns every Err into None.
get_committed_block(h) ==
    LET committed_block == get_committed_block_by_hash(h) IN
    IF committed_block.ok
    THEN Some([hash |-> h,
               epoch |-> committed_block.val.epoch,
               round |-> committed_block.val.round,
               pivot_decision |-> committed_block.val.pivot_decision,
               version |-> committed_block.val.version])
    ELSE None

\* A slip: only the rounds are compared, whatever the epochs.
tuple_lt_round_only(a, b) == a[2] < b[2]

\* A slip: `<=` for `<`, so that a predecessor equal to me is refused.
tuple_lt_or_equal(a, b) == a[1] < b[1] \/ (a[1] = b[1] /\ a[2] <= b[2])

\* `me_round < p_round` on (epoch, round) pairs: Rust orders tuples
\* lexicographically.
tuple_lt(a, b) == a[1] < b[1] \/ (a[1] = b[1] /\ a[2] < b[2])

RECURSIVE verify_preds_skip_unknown(_, _, _)
\* A slip: a predecessor that is not found is skipped.
verify_preds_skip_unknown(me_round, preds, i) ==
    IF i > Len(preds) THEN TRUE
    ELSE LET p == get_committed_block(preds[i]) IN
         IF ~p.some THEN verify_preds_skip_unknown(me_round, preds, i + 1)
         ELSE IF tuple_lt(me_round, <<p.val.epoch, p.val.round>>) THEN FALSE
         ELSE verify_preds_skip_unknown(me_round, preds, i + 1)

RECURSIVE verify_preds(_, _, _)
\* The loop `for p in preds` of verify_against_predecessors, from the i-th
\* predecessor on: false at the first one not found or ahead of me.
verify_preds(me_round, preds, i) ==
    IF i > Len(preds) THEN TRUE
    ELSE LET p == get_committed_block(preds[i]) IN
         IF ~p.some THEN FALSE
         ELSE IF tuple_lt(me_round, <<p.val.epoch, p.val.round>>) THEN FALSE
         ELSE verify_preds(me_round, preds, i + 1)

\* PosHandler::verify_against_predecessors on a Ready bridge.
verify_against_predecessors(me, preds) ==
    LET b == get_committed_block(me) IN
    IF ~b.some THEN FALSE
    ELSE verify_preds(<<b.val.epoch, b.val.round>>, preds, 1)

\* The lists of at most MaxPreds block ids.
PredLists == UNION {[1..n -> Hashes] : n \in 0..MaxPreds}

NoQuery == [op |-> "none"]

\* What a call that may panic comes to: a value, or the site of the panic.
Ret(v) == [panicked |-> FALSE, val |-> v]
Panic(site) == [panicked |-> TRUE, site |-> site]

\* A slip: `>` for `>=`, the activation height itself is left out.
is_enabled_above_height(height) == height > enable_height

\* PosHandler::is_enabled_at_height: the cell of the ledger view is not read.
is_enabled_at_height(height) == height >= enable_height

\* PosHandler::is_committed.
is_committed(h) == get_committed_block(h).some

\* PosHandler::get_pivot_decision: `.map(|b| b.pivot_decision)`.
get_pivot_decision(h) ==
    LET b == get_committed_block(h) IN
    IF b.some THEN Some(b.val.pivot_decision) ELSE None

\* PosConnection::latest_block: the block id of the latest ledger info, which
\* the store keeps in memory.
latest_block == Tip.hash

\* The event keys and the node ids of the staking events.
UnlockEventKey == "UnlockEvent::event_key"
DisputeEventKey == "DisputeEvent::event_key"
OtherEventKey == "other event key"
Nodes == {"n1", "n2"}

\* Event payloads, as the bytes they are: the encoding of an UnlockEvent, of
\* a DisputeEvent, or bytes that are neither.
UnlockBytes(n) == <<"UnlockEvent", n, 1>>
DisputeBytes(n) == <<"DisputeEvent", n>>
JunkBytes == <<"junk">>

\* UnlockEvent::from_bytes and DisputeEvent::from_bytes.
UnlockEvent_from_bytes(data) ==
    IF data[1] = "UnlockEvent"
    THEN [ok |-> TRUE, val |-> [node_id |-> data[2], unlocked |-> data[3]]]
    ELSE [ok |-> FALSE, err |-> "decode"]
DisputeEvent_from_bytes(data) ==
    IF data[1] = "DisputeEvent"
    THEN [ok |-> TRUE, val |-> [node_id |-> data[2]]]
    ELSE [ok |-> FALSE, err |-> "decode"]

\* The contract events a block may carry.
ContractEvents ==
    {[key |-> UnlockEventKey, data |-> UnlockBytes(n)] : n \in Nodes}
    \cup {[key |-> DisputeEventKey, data |-> DisputeBytes(n)] : n \in Nodes}
    \cup {[key |-> k, data |-> JunkBytes] :
              k \in {UnlockEventKey, DisputeEventKey, OtherEventKey}}

\* DiemDB::get_events_by_version(start_version, end_version): the events of
\* the versions after start_version up to and including end_version, in
\* commit order.
get_events_by_version(start_version, end_version) ==
    IF storage_err THEN [ok |-> FALSE, err |-> "storage"]
    ELSE [ok |-> TRUE,
          val |-> SelectSeq(event_log,
                            LAMBDA ev : /\ ev.version > start_version
                                        /\ ev.version <= end_version)]

\* A slip: the two ends of the range are passed the wrong way round.
get_events_swapped(from, to) ==
    LET start == get_committed_block_by_hash(to)
        end == get_committed_block_by_hash(from) IN
    IF ~start.ok THEN Panic("err reading ledger info for from")
    ELSE IF ~end.ok THEN Panic("err reading ledger info for to")
    ELSE LET events == get_events_by_version(start.val.version,
                                             end.val.version) IN
         IF ~events.ok THEN Panic("err reading events")
         ELSE Ret(events.val)

\* PosConnection::get_events(from, to): each of the three reads is
\* `.expect`ed.
get_events(from, to) ==
    LET start == get_committed_block_by_hash(from)
        end == get_committed_block_by_hash(to) IN
    IF ~start.ok THEN Panic("err reading ledger info for from")
    ELSE IF ~end.ok THEN Panic("err reading ledger info for to")
    ELSE LET events == get_events_by_version(start.val.version,
                                             end.val.version) IN
         IF ~events.ok THEN Panic("err reading events")
         ELSE Ret(events.val)

RECURSIVE unlock_loop_any_key(_, _, _)
\* A slip: the key is not compared, every event that decodes is reported.
unlock_loop_any_key(events, i, unlock_nodes) ==
    IF i > Len(events) THEN Ret(unlock_nodes)
    ELSE LET unlock_event == UnlockEvent_from_bytes(events[i].data) IN
         IF ~unlock_event.ok
         THEN unlock_loop_any_key(events, i + 1, unlock_nodes)
         ELSE unlock_loop_any_key(events, i + 1,
                  Append(unlock_nodes, <<unlock_event.val.node_id,
                                         unlock_event.val.unlocked>>))

RECURSIVE unlock_loop(_, _, _)
\* The loop of get_unlock_nodes from the i-th event on.
unlock_loop(events, i, unlock_nodes) ==
    IF i > Len(events) THEN Ret(unlock_nodes)
    ELSE IF events[i].key = UnlockEventKey
    THEN LET unlock_event == UnlockEvent_from_bytes(events[i].data) IN
         IF ~unlock_event.ok THEN Panic("key checked")
         ELSE unlock_loop(events, i + 1,
                  Append(unlock_nodes, <<unlock_event.val.node_id,
                                         unlock_event.val.unlocked>>))
    ELSE unlock_loop(events, i + 1, unlock_nodes)

\* PosHandler::get_unlock_nodes(h, parent_pos_ref).
get_unlock_nodes(h, parent_pos_ref) ==
    LET events == get_events(parent_pos_ref, h) IN
    IF events.panicked THEN events
    ELSE unlock_loop(events.val, 1, <<>>)

RECURSIVE dispute_loop_skip_undecodable(_, _, _)
\* A slip: an event under the dispute key that does not decode is skipped.
dispute_loop_skip_undecodable(events, i, disputed_nodes) ==
    IF i > Len(events) THEN Ret(disputed_nodes)
    ELSE IF events[i].key = DisputeEventKey
    THEN LET dispute_event == DisputeEvent_from_bytes(events[i].data) IN
         IF ~dispute_event.ok
         THEN dispute_loop_skip_undecodable(events, i + 1, disputed_nodes)
         ELSE dispute_loop_skip_undecodable(events, i + 1,
                  Append(disputed_nodes, dispute_event.val.node_id))
    ELSE dispute_loop_skip_undecodable(events, i + 1, disputed_nodes)

RECURSIVE dispute_loop(_, _, _)
\* The loop of get_disputed_nodes from the i-th event on.
dispute_loop(events, i, disputed_nodes) ==
    IF i > Len(events) THEN Ret(disputed_nodes)
    ELSE IF events[i].key = DisputeEventKey
    THEN LET dispute_event == DisputeEvent_from_bytes(events[i].data) IN
         IF ~dispute_event.ok THEN Panic("key checked")
         ELSE dispute_loop(events, i + 1,
                  Append(disputed_nodes, dispute_event.val.node_id))
    ELSE dispute_loop(events, i + 1, disputed_nodes)

\* PosHandler::get_disputed_nodes(h, parent_pos_ref).
get_disputed_nodes(h, parent_pos_ref) ==
    LET events == get_events(parent_pos_ref, h) IN
    IF events.panicked THEN events
    ELSE dispute_loop(events.val, 1, <<>>)

\* The reward event the PoS storage holds for an epoch.
RewardEventOf(epoch) == [reward_of_epoch |-> epoch]

\* PosConnection::get_reward_event: `.ok()` turns every Err into None.
get_reward_event(epoch) ==
    IF storage_err THEN None
    ELSE IF epoch \in rewards THEN Some(RewardEventOf(epoch))
    ELSE None

RECURSIVE reward_loop_skip_missing(_, _, _)
\* A slip: an epoch without a reward event is skipped.
reward_loop_skip_missing(epoch, end, events) ==
    IF epoch >= end THEN Some(events)
    ELSE LET e == get_reward_event(epoch) IN
         IF ~e.some THEN reward_loop_skip_missing(epoch + 1, end, events)
         ELSE reward_loop_skip_missing(epoch + 1, end, Append(events, e.val))

RECURSIVE reward_loop(_, _, _)
\* `for epoch in parent_block.epoch..me_block.epoch`, from `epoch` on: the `?`
\* gives up the whole call at the first epoch without a reward event.
reward_loop(epoch, end, events) ==
    IF epoch >= end THEN Some(events)
    ELSE LET e == get_reward_event(epoch) IN
         IF ~e.some THEN None
         ELSE reward_loop(epoch + 1, end, Append(events, e.val))

\* A slip: the test that the two blocks are of one epoch is left out.
reward_event_no_epoch_test(h, parent_pos_ref) ==
    IF h = parent_pos_ref THEN None
    ELSE LET me_block == get_committed_block(h)
             parent_block == get_committed_block(parent_pos_ref) IN
         IF ~me_block.some THEN None
         ELSE IF ~parent_block.some THEN None
         ELSE reward_loop(parent_block.val.epoch, me_block.val.epoch, <<>>)

\* PosHandler::get_reward_distribution_event(h, parent_pos_ref).
get_reward_distribution_event(h, parent_pos_ref) ==
    IF h = parent_pos_ref THEN None
    ELSE LET me_block == get_committed_block(h)
             parent_block == get_committed_block(parent_pos_ref) IN
         IF ~me_block.some THEN None
         ELSE IF ~parent_block.some THEN None
         ELSE IF me_block.val.epoch = parent_block.val.epoch THEN None
         ELSE reward_loop(parent_block.val.epoch, me_block.val.epoch, <<>>)

\* DiemDB::get_pos_state: the PoS state saved with a committed block.
get_pos_state(block_id) ==
    IF storage_err THEN [ok |-> FALSE, err |-> "storage"]
    ELSE IF \E i \in 1..Len(chain) : chain[i].hash = block_id
         THEN [ok |-> TRUE,
               val |-> [epoch_state |->
                          [epoch |-> chain[CHOOSE i \in 1..Len(chain) :
                                             chain[i].hash = block_id].epoch]]]
         ELSE [ok |-> FALSE, err |-> "not found"]

\* PosConnection::get_epoch_state: the read is `.expect`ed.
get_epoch_state(block_id) ==
    LET pos_state == get_pos_state(block_id) IN
    IF ~pos_state.ok THEN Panic("parent of an ending_epoch block")
    ELSE Ret(pos_state.val.epoch_state)

----------------------------------------------------------------------------
(* PosHandler::initialize, one step per statement.                         *)

NoCall == 0

Calls == 1..MaxCalls

ErrAlreadyInitialized == "Initializing already-initialized PosHandler!"
ErrInitializedTwice == "PoS initialized twice!"
ErrInitialNodesFile == "failed to open initial nodes file"

\* initialize is called.
InitCall(c) ==
    /\ panic = "none"
    /\ pc[c] = "idle"
    /\ pc' = [pc EXCEPT ![c] = "l100"]
    /\ UNCHANGED <<pos, diem_handler, ret, runtimes, registered, file_ok>>
    /\ UNCHANGED <<reqVars, ledgerVars, handleVars, panic>>

\* A slip: the guard of line 100 is missing.
InitCheck_no_guard(c) ==
    /\ panic = "none"
    /\ pc[c] = "l100"
    /\ pc' = [pc EXCEPT ![c] = "l103"]
    /\ ret' = ret
    /\ UNCHANGED <<pos, diem_handler, runtimes, registered, file_ok>>
    /\ UNCHANGED <<reqVars, ledgerVars, handleVars, panic>>

\* if self.pos.get().is_some() { bail!(...) }
InitCheck(c) ==
    /\ panic = "none"
    /\ pc[c] = "l100"
    /\ IF pos # NoCall
       THEN /\ pc' = [pc EXCEPT ![c] = "returned"]
            /\ ret' = [ret EXCEPT ![c] = ErrAlreadyInitialized]
       ELSE /\ pc' = [pc EXCEPT ![c] = "l103"]
            /\ ret' = ret
    /\ UNCHANGED <<pos, diem_handler, runtimes, registered, file_ok>>
    /\ UNCHANGED <<reqVars, ledgerVars, handleVars, panic>>

\* A slip: the cell of the ledger view is claimed before the file is read,
\* and a failed read leaves it claimed.
InitReadNodes_keeps_claim(c) ==
    /\ panic = "none"
    /\ pc[c] = "l103"
    /\ IF file_ok
       THEN /\ pc' = [pc EXCEPT ![c] = "l106"]
            /\ ret' = ret
            /\ pos' = pos
       ELSE /\ pc' = [pc EXCEPT ![c] = "returned"]
            /\ ret' = [ret EXCEPT ![c] = ErrInitialNodesFile]
            /\ pos' = c
    /\ UNCHANGED <<diem_handler, runtimes, registered, file_ok>>
    /\ UNCHANGED <<reqVars, ledgerVars, handleVars, panic>>

\* let initial_nodes = read_initial_nodes_from_file(...)?;
InitReadNodes(c) ==
    /\ panic = "none"
    /\ pc[c] = "l103"
    /\ IF file_ok
       THEN /\ pc' = [pc EXCEPT ![c] = "l106"]
            /\ ret' = ret
       ELSE /\ pc' = [pc EXCEPT ![c] = "returned"]
            /\ ret' = [ret EXCEPT ![c] = ErrInitialNodesFile]
    /\ UNCHANGED <<pos, diem_handler, runtimes, registered, file_ok>>
    /\ UNCHANGED <<reqVars, ledgerVars, handleVars, panic>>

\* let diem_handler = start_pos_consensus(...); and PosConnection::new(...)
InitStartConsensus(c) ==
    /\ panic = "none"
    /\ pc[c] = "l106"
    /\ runtimes' = runtimes \cup {c}
    /\ pc' = [pc EXCEPT ![c] = "l127"]
    /\ UNCHANGED <<pos, diem_handler, ret, registered, file_ok>>
    /\ UNCHANGED <<reqVars, ledgerVars, handleVars, panic>>

\* A slip: the hand-over of the PoW engine is left out of initialize.
InitPowHandler_left_out(c) ==
    /\ panic = "none"
    /\ pc[c] = "l127"
    /\ registered' = registered
    /\ pc' = [pc EXCEPT ![c] = "l128"]
    /\ UNCHANGED <<pos, diem_handler, ret, runtimes, file_ok>>
    /\ UNCHANGED <<reqVars, ledgerVars, handleVars, panic>>

\* diem_handler.pow_handler.initialize(consensus);
InitPowHandler(c) ==
    /\ panic = "none"
    /\ pc[c] = "l127"
    /\ registered' = registered \cup {c}
    /\ pc' = [pc EXCEPT ![c] = "l128"]
    /\ UNCHANGED <<pos, diem_handler, ret, runtimes, file_ok>>
    /\ UNCHANGED <<reqVars, ledgerVars, handleVars, panic>>

\* A slip: `|` for `||`, the second cell is tried after the first set failed.
InitSetPos_no_short_circuit(c) ==
    /\ panic = "none"
    /\ pc[c] = "l128"
    /\ pos' = IF pos = NoCall THEN c ELSE pos
    /\ pc' = [pc EXCEPT ![c] = "l129"]
    /\ ret' = ret
    /\ UNCHANGED <<diem_handler, runtimes, registered, file_ok>>
    /\ UNCHANGED <<reqVars, ledgerVars, handleVars, panic>>

\* A slip: a failed set is swallowed and the call reports success.
InitSetPos_ignores_failure(c) ==
    /\ panic = "none"
    /\ pc[c] = "l128"
    /\ IF pos = NoCall
       THEN /\ pos' = c
            /\ pc' = [pc EXCEPT ![c] = "l129"]
            /\ ret' = ret
       ELSE /\ pos' = pos
            /\ pc' = [pc EXCEPT ![c] = "returned"]
            /\ ret' = [ret EXCEPT ![c] = "Ok"]
    /\ UNCHANGED <<diem_handler, runtimes, registered, file_ok>>
    /\ UNCHANGED <<reqVars, ledgerVars, handleVars, panic>>

\* self.pos.set(Box::new(pos_connection)).is_err(): OnceCell::set fills an
\* empty cell and fails on a full one; a failure short-circuits to the bail.
InitSetPos(c) ==
    /\ panic = "none"
    /\ pc[c] = "l128"
    /\ IF pos = NoCall
       THEN /\ pos' = c
            /\ pc' = [pc EXCEPT ![c] = "l129"]
            /\ ret' = ret
       ELSE /\ pos' = pos
            /\ pc' = [pc EXCEPT ![c] = "returned"]
            /\ ret' = [ret EXCEPT ![c] = ErrInitializedTwice]
    /\ UNCHANGED <<diem_handler, runtimes, registered, file_ok>>
    /\ UNCHANGED <<reqVars, ledgerVars, handleVars, panic>>

\* || self.diem_handler.set(diem_handler).is_err() { bail!(...) } Ok(())
InitSetDiemHandler(c) ==
    /\ panic = "none"
    /\ pc[c] = "l129"
    /\ IF diem_handler = NoCall
       THEN /\ diem_handler' = c
            /\ ret' = [ret EXCEPT ![c] = "Ok"]
       ELSE /\ diem_handler' = diem_handler
            /\ ret' = [ret EXCEPT ![c] = ErrInitializedTwice]
    /\ pc' = [pc EXCEPT ![c] = "returned"]
    /\ UNCHANGED <<pos, runtimes, registered, file_ok>>
    /\ UNCHANGED <<reqVars, ledgerVars, handleVars, panic>>

----------------------------------------------------------------------------
(* The environment of the bridge, and the queries.                         *)

\* The PoS consensus commits the next block with its contract events: the
\* block extends the single committed chain, in the tip's epoch at a later
\* round or in the next epoch, where the rounds start again.
CommitBlock(e, r, events) ==
    /\ panic = "none"
    /\ runtimes # {}
    /\ Len(chain) < MaxChain
    /\ Len(event_log) + Len(events) <= MaxEvents
    /\ \/ e = Tip.epoch /\ r > Tip.round
       \/ e = Tip.epoch + 1
    /\ chain' = Append(chain, [hash |-> Len(chain), epoch |-> e, round |-> r,
                               pivot_decision |-> PivotOf(Len(chain)),
                               version |-> Tip.version + 1])
    /\ event_log' = event_log \o
                      [i \in 1..Len(events) |->
                         [version |-> Tip.version + 1, key |-> events[i].key,
                          data |-> events[i].data]]
    /\ UNCHANGED <<storage_err, ask, qres, rewards, enable_height>>
    /\ UNCHANGED <<reqVars, initVars, handleVars, panic>>

\* A block without contract events is committed.
Commit(e, r) == CommitBlock(e, r, <<>>)

\* The PoS storage saves the reward event of an epoch that has ended.
StoreReward(e) ==
    /\ panic = "none"
    /\ runtimes # {}
    /\ e < Tip.epoch
    /\ e \notin rewards
    /\ rewards' = rewards \cup {e}
    /\ UNCHANGED <<chain, storage_err, ask, qres, event_log, enable_height>>
    /\ UNCHANGED <<reqVars, initVars, handleVars, panic>>

\* The ledger store starts or stops failing its reads.
StorageFault ==
    /\ panic = "none"
    /\ storage_err' = ~storage_err
    /\ UNCHANGED <<chain, ask, qres, event_log, rewards, enable_height>>
    /\ UNCHANGED <<reqVars, initVars, handleVars, panic>>

\* What a query leaves alone: `&self`, and the ledger is only read.
QueryFrame ==
    /\ UNCHANGED <<chain, storage_err, ask, event_log, rewards, enable_height>>
    /\ UNCHANGED <<reqVars, initVars, handleVars>>

\* A query that went through fn pos(&self) and came to `result`: the unwrap
\* of the empty cell panics, and so does a panic inside the ledger view.
ThroughPos(result) ==
    IF pos = NoCall
    THEN /\ panic' = "pos"
         /\ qres' = qres
    ELSE IF result.panicked
    THEN /\ panic' = result.site
         /\ qres' = qres
    ELSE /\ panic' = panic
         /\ qres' = [op |-> ask.op, ask |-> ask, ret |-> result.val]

\* A slip: on an empty cell the query answers false instead of unwrapping.
QueryVerify_false_when_empty ==
    /\ panic = "none"
    /\ ask.op = "verify_against_predecessors"
    /\ panic' = panic
    /\ qres' = [op |-> "verify_against_predecessors",
                me |-> ask.me, preds |-> ask.preds,
                ret |-> IF pos = NoCall THEN FALSE
                        ELSE verify_against_predecessors(ask.me, ask.preds)]
    /\ QueryFrame

\* A caller asks verify_against_predecessors(ask.me, ask.preds). fn pos(&self)
\* unwraps the cell: a query on an Uninitialized bridge panics.
QueryVerify ==
    /\ panic = "none"
    /\ ask.op = "verify_against_predecessors"
    /\ IF pos = NoCall
       THEN /\ panic' = "pos"
            /\ qres' = qres
       ELSE /\ panic' = panic
            /\ qres' = [op |-> "verify_against_predecessors",
                        me |-> ask.me, preds |-> ask.preds,
                        ret |-> verify_against_predecessors(ask.me,
                                                            ask.preds)]
    /\ QueryFrame

\* A slip: the query stores the height it was asked about.
QueryEnabled_stores_height ==
    /\ panic = "none"
    /\ ask.op = "is_enabled_at_height"
    /\ panic' = panic
    /\ qres' = [op |-> ask.op, ask |-> ask,
                ret |-> is_enabled_at_height(ask.height)]
    /\ enable_height' = ask.height
    /\ UNCHANGED <<chain, storage_err, ask, event_log, rewards>>
    /\ UNCHANGED <<reqVars, initVars, handleVars>>

\* A caller asks is_enabled_at_height(ask.height).
QueryEnabled ==
    /\ panic = "none"
    /\ ask.op = "is_enabled_at_height"
    /\ panic' = panic
    /\ qres' = [op |-> ask.op, ask |-> ask,
                ret |-> is_enabled_at_height(ask.height)]
    /\ QueryFrame

\* A caller asks is_committed(ask.h).
QueryCommitted ==
    /\ panic = "none"
    /\ ask.op = "is_committed"
    /\ ThroughPos(Ret(is_committed(ask.h)))
    /\ QueryFrame

\* A caller asks get_pivot_decision(ask.h).
QueryPivotDecision ==
    /\ panic = "none"
    /\ ask.op = "get_pivot_decision"
    /\ ThroughPos(Ret(get_pivot_decision(ask.h)))
    /\ QueryFrame

\* A caller asks get_latest_pos_reference().
QueryLatest ==
    /\ panic = "none"
    /\ ask.op = "get_latest_pos_reference"
    /\ ThroughPos(Ret(latest_block))
    /\ QueryFrame

\* A caller asks get_unlock_nodes(ask.h, ask.parent_pos_ref).
QueryUnlockNodes ==
    /\ panic = "none"
    /\ ask.op = "get_unlock_nodes"
    /\ ThroughPos(get_unlock_nodes(ask.h, ask.parent_pos_ref))
    /\ QueryFrame

\* A caller asks get_disputed_nodes(ask.h, ask.parent_pos_ref).
QueryDisputedNodes ==
    /\ panic = "none"
    /\ ask.op = "get_disputed_nodes"
    /\ ThroughPos(get_disputed_nodes(ask.h, ask.parent_pos_ref))
    /\ QueryFrame

\* A caller asks get_reward_distribution_event(ask.h, ask.parent_pos_ref):
\* `h == parent_pos_ref` returns before fn pos(&self) is called.
QueryRewardEvent ==
    /\ panic = "none"
    /\ ask.op = "get_reward_distribution_event"
    /\ IF ask.h = ask.parent_pos_ref
       THEN /\ panic' = panic
            /\ qres' = [op |-> ask.op, ask |-> ask, ret |-> None]
       ELSE ThroughPos(Ret(get_reward_distribution_event(ask.h,
                                                         ask.parent_pos_ref)))
    /\ QueryFrame

\* A caller asks the ledger view, through fn pos(&self), for
\* get_epoch_state(ask.h).
QueryEpochState ==
    /\ panic = "none"
    /\ ask.op = "get_epoch_state"
    /\ ThroughPos(get_epoch_state(ask.h))
    /\ QueryFrame

\* The queries a caller may make.
AsksVerify ==
    [op : {"verify_against_predecessors"}, me : Hashes, preds : PredLists]
AsksBlock ==
    [op : {"is_committed", "get_pivot_decision", "get_epoch_state"},
     h : Hashes]
AsksEvents ==
    [op : {"get_unlock_nodes", "get_disputed_nodes"},
     h : Hashes, parent_pos_ref : Hashes]
AsksReward ==
    [op : {"get_reward_distribution_event"},
     h : Hashes, parent_pos_ref : Hashes]
AsksHeight == [op : {"is_enabled_at_height"}, height : 0..MaxHeight]
AsksLatest == [op : {"get_latest_pos_reference"}]

\* The peers a request may arrive from: Context.peer and Context.peer_hash.
Contexts == {[peer |-> "nodeA", peer_hash |-> "hashA"],
             [peer |-> "nodeB", peer_hash |-> "hashB"]}

\* AccountAddress::new(ctx.peer_hash.into()): the address made of the
\* hash's bytes.
AccountAddress_new(bytes) == <<"AccountAddress", bytes>>

Addresses == {AccountAddress_new(c.peer_hash) : c \in Contexts}

\* The correlation ids and the retrieval parameters of incoming requests.
RequestIds == {1, 2}
BlockRetrievalRequests == [block_id : {0, 1}, num_blocks : {1}]

NoHandled == [op |-> "none"]

\* The work items queued on the channel, whatever the key.
QueuedItems ==
    LET RECURSIVE Count(_)
        Count(S) == IF S = {} THEN 0
                    ELSE LET a == CHOOSE x \in S : TRUE IN
                         Len(block_retrieval_tx[a]) + Count(S \ {a})
    IN Count(Addresses)

\* channel::Sender::push(key, message): the message joins the key's queue,
\* or the push fails when the receiving end is gone.
push(key, message) ==
    IF receiver_alive
    THEN [ok |-> TRUE,
          queue |-> [block_retrieval_tx EXCEPT
                        ![key] = Append(@, message)]]
    ELSE [ok |-> FALSE, queue |-> block_retrieval_tx]

\* A slip: the result of the push is dropped and Ok returned.
Handle_ignores_push_error(ctx, request_id, request) ==
    /\ panic = "none"
    /\ QueuedItems < MaxQueue
    /\ LET peer_address == AccountAddress_new(ctx.peer_hash)
           req_with_callback == [req |-> request, peer_id |-> ctx.peer,
                                 request_id |-> request_id]
           pushed == push(peer_address, req_with_callback) IN
       /\ block_retrieval_tx' = pushed.queue
       /\ handled' = [op |-> "handle", ctx |-> ctx,
                      request_id |-> request_id, request |-> request,
                      ret |-> "Ok"]
    /\ UNCHANGED receiver_alive
    /\ UNCHANGED <<reqVars, initVars, ledgerVars, panic>>

\* A slip: the work item is keyed and pushed twice.
Handle_pushes_twice(ctx, request_id, request) ==
    /\ panic = "none"
    /\ QueuedItems < MaxQueue
    /\ LET peer_address == AccountAddress_new(ctx.peer_hash)
           req_with_callback == [req |-> request, peer_id |-> ctx.peer,
                                 request_id |-> request_id]
           pushed == push(peer_address, req_with_callback) IN
       /\ block_retrieval_tx' =
             IF pushed.ok
             THEN [pushed.queue EXCEPT
                     ![peer_address] = Append(@, req_with_callback)]
             ELSE pushed.queue
       /\ handled' = [op |-> "handle", ctx |-> ctx,
                      request_id |-> request_id, request |-> request,
                      ret |-> IF pushed.ok THEN "Ok" ELSE "Err"]
    /\ UNCHANGED receiver_alive
    /\ UNCHANGED <<reqVars, initVars, ledgerVars, panic>>

\* BlockRetrievalRpcRequest::handle(self, ctx) on an incoming request with
\* that correlation id and those retrieval parameters: one push, then `?`.
Handle(ctx, request_id, request) ==
    /\ panic = "none"
    /\ QueuedItems < MaxQueue
    /\ LET peer_address == AccountAddress_new(ctx.peer_hash)
           req_with_callback == [req |-> request, peer_id |-> ctx.peer,
                                 request_id |-> request_id]
           pushed == push(peer_address, req_with_callback) IN
       /\ block_retrieval_tx' = pushed.queue
       /\ handled' = [op |-> "handle", ctx |-> ctx,
                      request_id |-> request_id, request |-> request,
                      ret |-> IF pushed.ok THEN "Ok" ELSE "Err"]
    /\ UNCHANGED receiver_alive
    /\ UNCHANGED <<reqVars, initVars, ledgerVars, panic>>

\* The retrieval worker stops and drops the receiving end of the channel.
WorkerStops ==
    /\ panic = "none"
    /\ receiver_alive
    /\ receiver_alive' = FALSE
    /\ UNCHANGED <<block_retrieval_tx, handled>>
    /\ UNCHANGED <<reqVars, initVars, ledgerVars, panic>>

\* The channel as created: nothing queued, the worker listening.
NewChannel ==
    /\ block_retrieval_tx = [a \in Addresses |-> <<>>]
    /\ receiver_alive = TRUE
    /\ handled = NoHandled

\* PosHandler::new: both cells empty.
NewBridge ==
    /\ pos = NoCall
    /\ diem_handler = NoCall
    /\ pc = [c \in Calls |-> "idle"]
    /\ ret = [c \in Calls |-> "none"]
    /\ runtimes = {}
    /\ registered = {}

\* The bridge after the one initialize call of the bootstrap has returned Ok.
ReadyBridge ==
    /\ pos = 1
    /\ diem_handler = 1
    /\ pc = [c \in Calls |-> IF c = 1 THEN "returned" ELSE "idle"]
    /\ ret = [c \in Calls |-> IF c = 1 THEN "Ok" ELSE "none"]
    /\ runtimes = {1}
    /\ registered = {1}

GenesisLedger ==
    /\ chain = <<GenesisBlock>>
    /\ storage_err = FALSE
    /\ qres = NoQuery
    /\ event_log = <<>>
    /\ rewards = {}

NoAsk == [op |-> "none"]

\* A request that no call has touched yet.
NewRequest ==
    /\ response_tx = NoSink
    /\ sinks = 0
    /\ rx = <<>>
    /\ delivered = <<>>
    /\ tx_dropped = {}
    /\ phase = "New"
    /\ sent_tx = NoSink
    /\ timer = "unarmed"
    /\ resp = "none"
    /\ nerr = 0
    /\ last = [op |-> "new", arg |-> "none"]

\* The fields of a request as built by its sender, with one timeout or the
\* other.
FirstRequestId == CHOOSE id \in RequestIds : \A other \in RequestIds : id <= other
FirstRequest == CHOOSE r \in BlockRetrievalRequests : r.block_id = 0
AnyFields ==
    /\ own_request_id = FirstRequestId
    /\ own_request = FirstRequest
    /\ timeout \in Durations
DefaultFields ==
    /\ own_request_id = FirstRequestId
    /\ own_request = FirstRequest
    /\ timeout = "5s"

InitRequest ==
    /\ NewRequest
    /\ AnyFields
    /\ panic = "none"
    /\ NewBridge
    /\ file_ok = TRUE
    /\ GenesisLedger
    /\ ask = NoAsk
    /\ enable_height = 0
    /\ NewChannel

NextRequest ==
    \/ Register
    \/ Send
    \/ \E e \in Errors : NotifyError(e)
    \/ TimerFires
    \/ ResponseArrives
    \/ \E s \in 1..sinks : WaiterDrops(s)
    \/ \E conf \in ProtocolConfigurations : Timeout(conf)

SpecRequest == InitRequest /\ [][NextRequest]_vars

\* The timer is independent of the dispatch path: once armed it fires.
SpecRequestFair == SpecRequest /\ WF_vars(TimerFires)

InitInit ==
    /\ NewRequest
    /\ DefaultFields
    /\ panic = "none"
    /\ NewBridge
    /\ file_ok \in BOOLEAN
    /\ GenesisLedger
    /\ ask = NoAsk
    /\ enable_height = 0
    /\ NewChannel

NextInit ==
    \/ \E c \in Calls : InitCall(c)
    \/ \E c \in Calls : InitCheck(c)
    \/ \E c \in Calls : InitReadNodes(c)
    \/ \E c \in Calls : InitStartConsensus(c)
    \/ \E c \in Calls : InitPowHandler(c)
    \/ \E c \in Calls : InitSetPos(c)
    \/ \E c \in Calls : InitSetDiemHandler(c)
    \/ \E e \in 0..MaxEpoch, r \in 0..MaxRound : Commit(e, r)

SpecInit == InitInit /\ [][NextInit]_vars

\* The initial-validator-set file is put right, or goes wrong, between calls.
FileChanges ==
    /\ panic = "none"
    /\ file_ok' = ~file_ok
    /\ UNCHANGED <<pos, diem_handler, pc, ret, runtimes, registered>>
    /\ UNCHANGED <<reqVars, ledgerVars, handleVars, panic>>

\* The initialize calls of SpecInit with a file that changes.
NextInitFile ==
    \/ \E c \in Calls : InitCall(c)
    \/ \E c \in Calls : InitCheck(c)
    \/ \E c \in Calls : InitReadNodes(c)
    \/ \E c \in Calls : InitStartConsensus(c)
    \/ \E c \in Calls : InitPowHandler(c)
    \/ \E c \in Calls : InitSetPos(c)
    \/ \E c \in Calls : InitSetDiemHandler(c)
    \/ FileChanges

SpecInitFile == InitInit /\ [][NextInitFile]_vars

\* A bridge, new or Ready, and one query; the activation height matters to
\* is_enabled_at_height alone.
InitLedger ==
    /\ NewRequest
    /\ DefaultFields
    /\ panic = "none"
    /\ NewBridge \/ ReadyBridge
    /\ file_ok = TRUE
    /\ GenesisLedger
    /\ ask \in AsksVerify \cup AsksBlock \cup AsksEvents \cup AsksReward
                \cup AsksHeight \cup AsksLatest
    /\ enable_height \in IF ask.op = "is_enabled_at_height"
                          THEN 0..MaxHeight ELSE {0}
    /\ NewChannel

NextLedger ==
    \/ \E e \in 0..MaxEpoch, r \in 0..MaxRound : Commit(e, r)
    \/ StorageFault
    \/ QueryVerify
    \/ QueryEnabled
    \/ QueryCommitted
    \/ QueryPivotDecision
    \/ QueryLatest
    \/ QueryUnlockNodes
    \/ QueryDisputedNodes
    \/ QueryRewardEvent
    \/ QueryEpochState

SpecLedger == InitLedger /\ [][NextLedger]_vars

\* The lists of at most MaxEvents contract events.
EventLists == UNION {[1..n -> ContractEvents] : n \in 0..MaxEvents}

\* A Ready bridge asked for the unlock or the disputed nodes while blocks
\* with contract events are committed.
InitEvents ==
    /\ NewRequest
    /\ DefaultFields
    /\ panic = "none"
    /\ ReadyBridge
    /\ file_ok = TRUE
    /\ GenesisLedger
    /\ ask \in AsksEvents
    /\ enable_height = 0
    /\ NewChannel

NextEvents ==
    \/ \E events \in EventLists :
          CommitBlock(Tip.epoch, Tip.round + 1, events)
    \/ QueryUnlockNodes
    \/ QueryDisputedNodes

SpecEvents == InitEvents /\ [][NextEvents]_vars

\* A Ready bridge asked for the reward events while epochs end and their
\* reward events are stored.
InitRewards ==
    /\ NewRequest
    /\ DefaultFields
    /\ panic = "none"
    /\ ReadyBridge
    /\ file_ok = TRUE
    /\ GenesisLedger
    /\ ask \in AsksReward
    /\ enable_height = 0
    /\ NewChannel

NextRewards ==
    \/ Commit(Tip.epoch, Tip.round + 1)
    \/ Commit(Tip.epoch + 1, 0)
    \/ \E e \in 0..MaxChain : StoreReward(e)
    \/ StorageFault
    \/ QueryRewardEvent

SpecRewards == InitRewards /\ [][NextRewards]_vars

\* The serving side: incoming block-retrieval requests are handled while the
\* node's own request registers its sinks.
InitHandle ==
    /\ NewRequest
    /\ DefaultFields
    /\ panic = "none"
    /\ NewBridge
    /\ file_ok = TRUE
    /\ GenesisLedger
    /\ ask = NoAsk
    /\ enable_height = 0
    /\ NewChannel

NextHandle ==
    \/ \E ctx \in Contexts, request_id \in RequestIds,
          request \in BlockRetrievalRequests :
            Handle(ctx, request_id, request)
    \/ WorkerStops
    \/ Register

SpecHandle == InitHandle /\ [][NextHandle]_vars

----------------------------------------------------------------------------
(* Claims about the request correlation protocol.                          *)

\* The waiter of the request dispatched has its outcome, or has gone.
WaiterServed ==
    IF sent_tx = NoSink THEN TRUE
    ELSE delivered[sent_tx] # <<>> \/ rx[sent_tx] = "dropped"

\* A step taken by one of the three resolving events.
ResolvingEvent == timer' # timer \/ resp' # resp \/ nerr' # nerr

\* C1: for an outstanding request whose registered sink is awaited, whatever
\* the order of the matching response, notify_error and the timer, the first
\* of them moves the request to a terminal state and resolves the sink with
\* exactly one outcome; no later event delivers another outcome or changes
\* the state, and no sink ever holds two outcomes.
C1_ExactlyOneResolution ==
    /\ [](\A s \in 1..sinks : Len(delivered[s]) <= 1)
    /\ [][ /\ (phase = "Sent" /\ ResolvingEvent /\ panic' = "none")
                => (phase' \in Terminal /\ response_tx' = NoSink)
           /\ (phase = "Sent" /\ phase' \in Terminal /\ response_tx # NoSink
                 /\ send_succeeds(response_tx))
                => (/\ delivered[response_tx] = <<>>
                    /\ Len(delivered'[response_tx]) = 1
                    /\ \A s \in 1..sinks :
                          s # response_tx => delivered'[s] = delivered[s])
           /\ (phase \in Terminal)
                => (phase' = phase /\ delivered' = delivered
                    /\ response_tx' = NoSink)
         ]_vars

\* C1 witness: the response resolved an awaited sink, then the timer fired
\* and an explicit error was delivered, and the sink holds one outcome.
C1_Witness ==
    /\ phase = "ResolvedOk"
    /\ timer = "fired"
    /\ resp = "arrived"
    /\ last.op = "notify_error"
    /\ sent_tx # NoSink
    /\ rx[sent_tx] = "listening"
    /\ delivered[sent_tx] = <<Ok("response")>>

\* C2: when the timer fires before the response, the sink registered at
\* dispatch holds the timeout error alone, also after the late response, and
\* nothing panics; when the response comes first, an awaited sink holds that
\* response alone, also after the timer has fired, and nothing panics.
C2_TimeoutVersusResponse ==
    /\ (phase = "TimedOut" \/ phase = "ResolvedOk") => panic = "none"
    /\ (phase = "TimedOut" /\ sent_tx # NoSink)
          => delivered[sent_tx] = <<Err("Timeout")>>
    /\ (phase = "ResolvedOk" /\ sent_tx # NoSink)
          => \/ delivered[sent_tx] = <<Ok("response")>>
             \/ delivered[sent_tx] = <<>> /\ rx[sent_tx] = "dropped"

\* C2 witness: the timeout resolved the sink and the late response has
\* arrived since.
C2_Witness ==
    /\ phase = "TimedOut"
    /\ resp = "arrived"
    /\ last.op = "response"
    /\ sent_tx # NoSink
    /\ delivered[sent_tx] = <<Err("Timeout")>>
    /\ panic = "none"

\* C3: a notify_error(e) call that finds an awaited sink in the holder sends
\* exactly Err(e) into it and empties the holder; a notify_error call that
\* finds the holder empty delivers nothing and changes nothing; the holder is
\* empty after every notify_error call.
C3_NotifyErrorIdempotent ==
    /\ [](last.op = "notify_error" => response_tx = NoSink)
    /\ [][ nerr' = nerr + 1 =>
            /\ (response_tx # NoSink /\ send_succeeds(response_tx))
                 => /\ delivered' = [delivered EXCEPT ![response_tx] =
                                        Append(@, Err(last'.arg))]
                    /\ response_tx' = NoSink
                    /\ panic' = panic
            /\ (response_tx = NoSink)
                 => UNCHANGED <<response_tx, delivered, rx, tx_dropped,
                                panic>>
         ]_vars

\* C3 witness: two notify_error calls on a request with one sink; the sink
\* holds the first error only.
C3_Witness ==
    /\ sinks = 1
    /\ nerr = 2
    /\ timer # "fired"
    /\ resp = "none"
    /\ last.op = "notify_error"
    /\ Len(delivered[1]) = 1
    /\ delivered[1][1].kind = "Err"

\* C4: notify_error never crashes the process, whatever the state of the
\* holder and of the waiter.
C4_NotifyErrorNeverPanics == panic # "notify_error"

\* C5: every request that enters Sent reaches a terminal state, and a waiter
\* that keeps listening on the sink registered at dispatch receives an
\* outcome, given that the armed timer fires.
C5_EventuallyResolved ==
    /\ (phase = "Sent") ~> (phase \in Terminal)
    /\ (phase = "Sent" /\ sent_tx # NoSink)
          ~> WaiterServed

----------------------------------------------------------------------------
(* Claims about verify_against_predecessors, under SpecLedger.             *)

\* The block id is committed: it is on the chain.
Committed(h) == \E i \in 1..Len(chain) : chain[i].hash = h

\* The committed block with that id.
BlockAt(h) == chain[CHOOSE i \in 1..Len(chain) : chain[i].hash = h]

\* The ledger view returns a block for the id.
Found(h) == get_committed_block(h).some

\* A step that answers a query.
QueryStep == qres' # qres /\ qres'.op = "verify_against_predecessors"

C7_ExtendsEveryPredecessor ==
    [][ (QueryStep /\ ~storage_err) =>
          \A i, j \in 1..Len(chain) :
             /\ (i <= j /\ qres'.me = chain[j].hash
                        /\ qres'.preds = <<chain[i].hash>>)
                   => qres'.ret = TRUE
             /\ (i < j /\ qres'.me = chain[i].hash
                       /\ qres'.preds = <<chain[j].hash>>)
                   => qres'.ret = FALSE
      ]_vars

\* C7 witness: a descendant in a later epoch, at a smaller round than its
\* ancestor, was accepted against that ancestor.
C7_Witness ==
    /\ qres.op = "verify_against_predecessors"
    /\ Len(qres.preds) = 1
    /\ Committed(qres.me) /\ Committed(qres.preds[1])
    /\ BlockAt(qres.preds[1]).version < BlockAt(qres.me).version
    /\ BlockAt(qres.preds[1]).epoch < BlockAt(qres.me).epoch
    /\ BlockAt(qres.preds[1]).round > BlockAt(qres.me).round
    /\ qres.ret = TRUE

\* C8: on a Ready bridge every verify_against_predecessors query returns a
\* boolean without a panic, and returns false when the candidate or any
\* predecessor is not committed.
C8_UnknownBlockIsFalse ==
    [][ QueryStep =>
          /\ qres'.ret \in BOOLEAN
          /\ panic' = "none"
          /\ (\/ ~Committed(qres'.me)
              \/ \E i \in DOMAIN qres'.preds : ~Committed(qres'.preds[i]))
                => qres'.ret = FALSE
      ]_vars

\* C8 witness: a committed candidate with a committed predecessor behind it
\* and an unknown predecessor was refused.
C8_Witness ==
    /\ qres.op = "verify_against_predecessors"
    /\ Len(qres.preds) = 2
    /\ Committed(qres.me)
    /\ Committed(qres.preds[1])
    /\ ~Committed(qres.preds[2])
    /\ qres.ret = FALSE
    /\ panic = "none"

----------------------------------------------------------------------------
(* Claims about initialize, under SpecInit.                                *)

AlreadyInitialized == {ErrAlreadyInitialized, ErrInitializedTwice}

Succeeded == {c \in Calls : ret[c] = "Ok"}

\* C9: once an initialize call has returned Ok, a call that then runs its
\* first statement returns the already-initialized error at once and changes
\* neither cell, starts no runtime and registers nothing, so that every
\* verify_against_predecessors query answers as before; and a cell that is
\* set is never replaced.
C9_SecondInitializeRefused ==
    [][ /\ \A c \in Calls :
              (Succeeded # {} /\ pc[c] = "l100" /\ pc'[c] # "l100")
                 => /\ pc'[c] = "returned"
                    /\ ret'[c] = ErrAlreadyInitialized
                    /\ UNCHANGED <<pos, diem_handler, runtimes, registered,
                                   chain, storage_err>>
                    /\ \A me \in Hashes, preds \in PredLists :
                          verify_against_predecessors(me, preds)'
                             = verify_against_predecessors(me, preds)
        /\ (pos # NoCall => pos' = pos)
        /\ (diem_handler # NoCall => diem_handler' = diem_handler)
      ]_vars

\* C9 witness: a call returned Ok and a later call was refused at its first
\* statement, the cells still holding what the first call installed.
C9_Witness ==
    \E c, d \in Calls :
        /\ ret[c] = "Ok"
        /\ ret[d] = ErrAlreadyInitialized
        /\ pos = c
        /\ diem_handler = c
        /\ runtimes = {c}
        /\ Len(chain) > 1

\* C10: with a readable validator-set file, at most one initialize call ever
\* returns Ok, every other call that has returned has returned an
\* already-initialized error, and when all calls have returned exactly one
\* has succeeded.
C10_ExactlyOneSuccess ==
    /\ Cardinality(Succeeded) <= 1
    /\ file_ok =>
         /\ \A c \in Calls :
               (pc[c] = "returned" /\ ret[c] # "Ok")
                  => ret[c] \in AlreadyInitialized
         /\ (\A c \in Calls : pc[c] = "returned")
               => Cardinality(Succeeded) = 1

\* C10 witness: two calls raced past the first check; one succeeded and the
\* other found the cell full when it tried to set it.
C10_Witness ==
    /\ \A c \in Calls : pc[c] = "returned"
    /\ \E c, d \in Calls : ret[c] = "Ok" /\ ret[d] = ErrInitializedTwice
    /\ Cardinality(runtimes) > 1

----------------------------------------------------------------------------
(* C11: across any interleaving of initialize calls, the failing ones      *)
(* included, the PoS runtime is started at most once and the PoW engine    *)
(* handle is registered with a runtime at most once.                       *)
C11_RuntimeStartedAtMostOnce ==
    /\ Cardinality(runtimes) <= 1
    /\ Cardinality(registered) <= 1

----------------------------------------------------------------------------
\* The bridge is Uninitialized: the cell of the ledger view is empty.
Uninitialized == pos = NoCall

\* A step in which a caller's query answered or aborted.
AnyQueryStep == qres' # qres \/ panic' # panic

\* The queries that answer without reading the cell of the ledger view.
AnswersWithoutView ==
    \/ ask.op = "is_enabled_at_height"
    \/ /\ ask.op = "get_reward_distribution_event"
       /\ ask.h = ask.parent_pos_ref

----------------------------------------------------------------------------
\* What the query a caller makes comes to on the ledger as it stands.
Answer ==
    CASE ask.op = "is_enabled_at_height" -> is_enabled_at_height(ask.height)
      [] ask.op = "is_committed" -> is_committed(ask.h)
      [] ask.op = "verify_against_predecessors" ->
            verify_against_predecessors(ask.me, ask.preds)
      [] ask.op = "get_pivot_decision" -> get_pivot_decision(ask.h)
      [] ask.op = "get_latest_pos_reference" -> latest_block
      [] ask.op = "get_unlock_nodes" ->
            get_unlock_nodes(ask.h, ask.parent_pos_ref).val
      [] ask.op = "get_disputed_nodes" ->
            get_disputed_nodes(ask.h, ask.parent_pos_ref).val
      [] ask.op = "get_reward_distribution_event" ->
            get_reward_distribution_event(ask.h, ask.parent_pos_ref)
      [] ask.op = "get_epoch_state" -> get_epoch_state(ask.h).val

----------------------------------------------------------------------------
\* The events the query of the caller scans, and those of them under a key.
Scanned == get_events(ask.parent_pos_ref, ask.h).val
UnderKey(events, key) == SelectSeq(events, LAMBDA ev : ev.key = key)

\* C14: get_unlock_nodes answers with one (node, votes) entry for each
\* scanned event whose key is the unlock key, get_disputed_nodes with one
\* node for each scanned event whose key is the dispute key, in the order of
\* the events; events under any other key add nothing, and the answer is
\* empty when no scanned event has the key.
C14_OneEntryPerMatchingEvent ==
    [][(~Uninitialized /\ qres' # qres) =>
          /\ qres'.op = "get_unlock_nodes" =>
               LET matching == UnderKey(Scanned, UnlockEventKey) IN
               /\ Len(qres'.ret) = Len(matching)
               /\ \A i \in 1..Len(matching) :
                    qres'.ret[i] = <<matching[i].data[2], matching[i].data[3]>>
          /\ qres'.op = "get_disputed_nodes" =>
               LET matching == UnderKey(Scanned, DisputeEventKey) IN
               /\ Len(qres'.ret) = Len(matching)
               /\ \A i \in 1..Len(matching) :
                    qres'.ret[i] = matching[i].data[2]]_vars

\* get_unlock_nodes scanned an unlock event and an event under another key,
\* and reported the one.
C14_Witness ==
    /\ qres.op = "get_unlock_nodes"
    /\ Len(Scanned) = 2
    /\ Scanned[1].key = DisputeEventKey
    /\ Scanned[2].key = UnlockEventKey
    /\ qres.ret = <<<<"n2", 1>>>>

----------------------------------------------------------------------------
\* The events of the ledger committed after block `from` and no later than
\* block `to`, in commit order.
CommittedBetween(from, to) ==
    SelectSeq(event_log,
              LAMBDA ev : /\ ev.version > BlockAt(from).version
                          /\ ev.version <= BlockAt(to).version)

----------------------------------------------------------------------------
\* A step in which get_reward_distribution_event answered on a Ready bridge.
RewardQueryStep ==
    /\ ~Uninitialized
    /\ qres' # qres
    /\ qres'.op = "get_reward_distribution_event"

\* The two blocks of the caller's query are committed.
BothCommitted == Committed(ask.h) /\ Committed(ask.parent_pos_ref)

\* C16: get_reward_distribution_event(h, parent_ref) answers "no result"
\* when h is parent_ref and when the two blocks are committed in the same
\* epoch.
C16_SameBlockOrEpochIsNone ==
    [][RewardQueryStep =>
          /\ ask.h = ask.parent_pos_ref => qres'.ret = None
          /\ (/\ BothCommitted
              /\ BlockAt(ask.h).epoch = BlockAt(ask.parent_pos_ref).epoch)
                => qres'.ret = None]_vars

\* Two different blocks of the same epoch, the store readable and the
\* epoch's reward event stored or not: the answer was "no result".
C16_Witness ==
    /\ qres.op = "get_reward_distribution_event"
    /\ ask.h # ask.parent_pos_ref
    /\ BothCommitted
    /\ BlockAt(ask.h).epoch = BlockAt(ask.parent_pos_ref).epoch
    /\ ~storage_err
    /\ qres.ret = None

\* C17: when the two blocks are committed in different epochs, the answer
\* is "no result" or the full list: one reward event for each epoch from
\* the parent's up to but not including h's, in ascending order. If one of
\* these epochs has no stored reward event the answer is "no result", never
\* a shorter list.
C17_AllEpochsOrNone ==
    [][(/\ RewardQueryStep
        /\ BothCommitted
        /\ BlockAt(ask.h).epoch # BlockAt(ask.parent_pos_ref).epoch) =>
          LET first == BlockAt(ask.parent_pos_ref).epoch
              end == BlockAt(ask.h).epoch
              epochs == {e \in 0..MaxChain : first <= e /\ e < end} IN
          /\ \/ qres'.ret = None
             \/ /\ qres'.ret.some
                /\ Len(qres'.ret.val) = Cardinality(epochs)
                /\ \A i \in 1..Len(qres'.ret.val) :
                     qres'.ret.val[i] = RewardEventOf(first + i - 1)
          /\ (\E e \in epochs : e \notin rewards) => qres'.ret = None]_vars

\* The parent reference is of epoch 0 and h of epoch 2: the answer lists the
\* reward events of epochs 0 and 1, in that order.
C17_Witness ==
    /\ qres.op = "get_reward_distribution_event"
    /\ BothCommitted
    /\ BlockAt(ask.parent_pos_ref).epoch = 0
    /\ BlockAt(ask.h).epoch = 2
    /\ qres.ret = Some(<<RewardEventOf(0), RewardEventOf(1)>>)

----------------------------------------------------------------------------
\* C18: on a Ready bridge whose store is readable, a query that names a
\* block that is not committed, or an epoch state that does not exist, is
\* answered with "no result", false or an empty list: no query panics.
C18_NotFoundIsAbsence ==
    (~Uninitialized /\ ~storage_err) => panic = "none"

\* The caller's query reads the ledger store.
ReadsStore ==
    \/ ask.op \in {"is_committed", "verify_against_predecessors",
                   "get_pivot_decision", "get_unlock_nodes",
                   "get_disputed_nodes", "get_epoch_state"}
    \/ /\ ask.op = "get_reward_distribution_event"
       /\ ask.h # ask.parent_pos_ref

\* C19: a query of a Ready bridge that reads the ledger store while the
\* store fails is fatal: it does not come back with an answer.
C19_StorageFailureIsFatal ==
    [][(~Uninitialized /\ storage_err /\ ReadsStore) => qres' = qres]_vars

----------------------------------------------------------------------------
\* A step in which an incoming block-retrieval request was handled.
HandleStep ==
    handled' # handled \/ block_retrieval_tx' # block_retrieval_tx

\* C20: handling an incoming block-retrieval request while the worker
\* listens puts exactly one work item on the channel, in the queue of the
\* requesting peer's address and behind the items already there; the item
\* carries the request's retrieval parameters unchanged, the requester's
\* identity and the correlation id, and handle returns Ok. The step reads
\* nothing of the ledger, answers no query and resolves no completion sink.
C20_HandleEnqueuesOneItem ==
    [][HandleStep =>
          LET key == <<"AccountAddress", handled'.ctx.peer_hash>>
              item == [req |-> handled'.request,
                       peer_id |-> handled'.ctx.peer,
                       request_id |-> handled'.request_id] IN
          /\ receiver_alive =>
               /\ handled'.ret = "Ok"
               /\ block_retrieval_tx'[key] =
                     Append(block_retrieval_tx[key], item)
               /\ \A a \in Addresses \ {key} :
                     block_retrieval_tx'[a] = block_retrieval_tx[a]
          /\ UNCHANGED <<reqVars, initVars, ledgerVars, panic>>]_vars

\* A request of peer B was handled while the node's own request held a sink:
\* one item in B's queue, none in A's, the sink still held and unresolved.
C20_Witness ==
    /\ handled.op = "handle"
    /\ handled.ret = "Ok"
    /\ handled.ctx.peer = "nodeB"
    /\ block_retrieval_tx[<<"AccountAddress", "hashB">>] =
          <<[req |-> handled.request, peer_id |-> "nodeB",
             request_id |-> handled.request_id]>>
    /\ block_retrieval_tx[<<"AccountAddress", "hashA">>] = <<>>
    /\ response_tx # NoSink
    /\ delivered[response_tx] = <<>>

----------------------------------------------------------------------------
\* The key the caller's staking-event query looks for, and the name its
\* payloads start with.
AskedKey ==
    IF ask.op = "get_unlock_nodes" THEN UnlockEventKey ELSE DisputeEventKey
AskedPayload ==
    IF ask.op = "get_unlock_nodes" THEN "UnlockEvent" ELSE "DisputeEvent"

\* A scanned event is under the asked key and its payload does not decode.
UndecodableUnderKey ==
    \E i \in 1..Len(Scanned) : /\ Scanned[i].key = AskedKey
                               /\ Scanned[i].data[1] # AskedPayload

\* The scanned events without those under another key.
ScannedUnderKeyOnly == UnderKey(Scanned, AskedKey)

\* C21: when get_unlock_nodes or get_disputed_nodes scans an event under its
\* key whose payload does not decode, the call panics and nothing is
\* returned, neither a list without the event nor an error; when every event
\* under its key decodes the call answers, and the answer is what it would
\* be without the events under the other keys, decodable or not.
C21_UndecodableUnderKeyIsFatal ==
    [][(/\ ~Uninitialized
        /\ AnyQueryStep
        /\ ask.op \in {"get_unlock_nodes", "get_disputed_nodes"}
        /\ BothCommitted) =>
          IF UndecodableUnderKey
          THEN /\ panic' = "key checked"
               /\ qres' = qres
          ELSE /\ panic' = "none"
               /\ Len(qres'.ret) = Len(ScannedUnderKeyOnly)
               /\ qres'.ret =
                    IF ask.op = "get_unlock_nodes"
                    THEN unlock_loop(ScannedUnderKeyOnly, 1, <<>>).val
                    ELSE dispute_loop(ScannedUnderKeyOnly, 1, <<>>).val]_vars

\* get_disputed_nodes scanned a decodable dispute event and then one whose
\* payload is junk, and panicked at the decode.
C21_Witness ==
    /\ ask.op = "get_disputed_nodes"
    /\ BothCommitted
    /\ Len(Scanned) = 2
    /\ Scanned[1].key = DisputeEventKey /\ Scanned[1].data = DisputeBytes("n1")
    /\ Scanned[2].key = DisputeEventKey /\ Scanned[2].data = JunkBytes
    /\ panic = "key checked"
    /\ qres = NoQuery

----------------------------------------------------------------------------
\* C22: is_enabled_at_height(h) answers true exactly when h is at least the
\* activation height, whatever the lifecycle state of the bridge, the
\* ledger's contents and the state of the store; the predicate is monotone
\* in h.
C22_EnabledFromActivationHeight ==
    /\ [](\A h1, h2 \in 0..MaxHeight :
             (h1 <= h2 /\ is_enabled_at_height(h1))
                => is_enabled_at_height(h2))
    /\ [][(qres' # qres /\ qres'.op = "is_enabled_at_height") =>
             /\ qres'.ret \in BOOLEAN
             /\ qres'.ret <=> (ask.height >= enable_height)
             /\ panic' = "none"]_vars

\* The query was made at the activation height itself, above zero, on a
\* ledger that had grown and with the store failing: the answer was true.
C22_Witness ==
    /\ qres.op = "is_enabled_at_height"
    /\ ask.height = enable_height
    /\ enable_height > 0
    /\ Len(chain) > 1
    /\ storage_err
    /\ qres.ret = TRUE

----------------------------------------------------------------------------
\* C23: timeout(protocol_config) returns the timeout field of the request,
\* whatever configuration is passed in, and leaves the request as it was:
\* correlation id, retrieval parameters, timeout and sink holder, with
\* nothing sent into any sink.
C23_TimeoutIsTheRequestsOwn ==
    [][(last' # last /\ last'.op = "timeout") =>
          /\ last'.ret = timeout
          /\ UNCHANGED <<own_request_id, own_request, timeout, response_tx>>
          /\ UNCHANGED <<delivered, tx_dropped, phase, panic>>]_vars

\* timeout() was called, on a request holding a sink, with a configuration
\* whose request timeout is not the request's: the request's was returned.
C23_Witness ==
    /\ last.op = "timeout"
    /\ last.arg.request_timeout # timeout
    /\ last.ret = timeout
    /\ response_tx # NoSink

----------------------------------------------------------------------------
\* C24: when the push of the work item fails, handle returns the error, the
\* channel holds no item for the request - its queues are as before - and
\* no completion sink is resolved.
C24_PushFailureIsReturned ==
    [][(handled' # handled /\ ~receiver_alive) =>
          /\ handled'.ret = "Err"
          /\ block_retrieval_tx' = block_retrieval_tx
          /\ UNCHANGED <<response_tx, delivered, tx_dropped, panic>>]_vars

\* A request was handled after the worker had stopped, with an earlier item
\* still queued and the node's own request holding a sink: handle returned
\* the error and the queue kept its one item.
C24_Witness ==
    /\ handled.op = "handle"
    /\ handled.ret = "Err"
    /\ ~receiver_alive
    /\ QueuedItems = 1
    /\ response_tx # NoSink
    /\ delivered[response_tx] = <<>>

----------------------------------------------------------------------------
\* The calls other than c have not started or have failed on the file.
OthersIdleOrFileFailed(c) ==
    \A d \in Calls \ {c} : pc[d] = "idle" \/ ret[d] = ErrInitialNodesFile

\* C25: an initialize call that fails on the initial-validator-set file
\* returns its error from the read, having started no runtime and registered
\* nothing, and changes neither cell; while the only calls made are such
\* failures the bridge is Uninitialized with both cells empty; and a call
\* made beside such failures alone is never refused as already initialized:
\* it succeeds or fails on the file itself.
C25_FileFailureLeavesUninitialized ==
    /\ [][\A c \in Calls :
            (ret[c] = "none" /\ ret'[c] = ErrInitialNodesFile) =>
               /\ pc[c] = "l103"
               /\ pc'[c] = "returned"
               /\ c \notin runtimes \cup registered
               /\ UNCHANGED <<pos, diem_handler, runtimes, registered>>]_vars
    /\ []((\A c \in Calls : pc[c] = "idle" \/ ret[c] = ErrInitialNodesFile)
             => /\ pos = NoCall
                /\ diem_handler = NoCall
                /\ runtimes = {})
    /\ [](\A c \in Calls :
             (pc[c] = "returned" /\ OthersIdleOrFileFailed(c))
                => ret[c] \in {"Ok", ErrInitialNodesFile})

\* The first call failed on the file; the file was put right and the second
\* call succeeded and installed both cells.
C25_Witness ==
    \E c, d \in Calls :
        /\ ret[c] = ErrInitialNodesFile
        /\ ret[d] = "Ok"
        /\ pos = d
        /\ diem_handler = d
        /\ runtimes = {d}
        /\ registered = {d}

----------------------------------------------------------------------------
\* C26: in every state the cell of the runtime handles is set only if the
\* cell of the ledger view is, and by the same initialize call; a cell that
\* is set is never set again nor emptied.
C26_CellsSetTogetherOnce ==
    /\ [](diem_handler # NoCall => pos = diem_handler)
    /\ [][/\ pos # NoCall => pos' = pos
          /\ diem_handler # NoCall => diem_handler' = diem_handler]_vars

\* Two calls raced: one set both cells, the other found the first cell full
\* and was turned away with the second cell untouched by it.
C26_Witness ==
    \E c, d \in Calls :
        /\ pos = c
        /\ diem_handler = c
        /\ ret[c] = "Ok"
        /\ ret[d] = ErrInitializedTwice
        /\ {c, d} \subseteq runtimes

\* C27: in every state in which the ledger view is installed, so that a
\* ledger-backed query can be answered, the call that installed it has
\* already registered the PoW engine with its runtime, which it had started.
C27_RegisteredBeforeReady ==
    pos # NoCall => (pos \in registered /\ pos \in runtimes)

\* The ledger view is installed and the installing call has not yet set the
\* second cell nor returned: its registration is already done.
C27_Witness ==
    /\ pos # NoCall
    /\ diem_handler = NoCall
    /\ pc[pos] = "l129"
    /\ pos \in registered

----------------------------------------------------------------------------
\* C28: whenever get_reward_distribution_event(h, parent_ref) has answered
\* with a list rather than "no result", the list holds at least one event,
\* whichever of the two committed blocks is of the earlier epoch.
C28_RewardListNotEmpty ==
    (qres.op = "get_reward_distribution_event" /\ qres.ret.some)
       => Len(qres.ret.val) >= 1

----------------------------------------------------------------------------
\* C29: the holder of a request is empty or holds the sink registered last;
\* a notify_error call sends into no sink but the one the holder held, one
\* Err with its error when that sink's receiver listens, and leaves the
\* holder empty; a sink that was replaced in the holder before it was
\* consumed is dropped unsent and never has an outcome.
C29_HolderHasLatestSinkOnly ==
    /\ [](response_tx \in {NoSink, sinks})
    /\ [](\A s \in tx_dropped : delivered[s] = <<>>)
    /\ [][(nerr' # nerr /\ panic' = "none") =>
            /\ response_tx' = NoSink
            /\ \A s \in 1..sinks :
                 delivered'[s] =
                    IF s = response_tx /\ rx[s] = "listening"
                    THEN Append(delivered[s], Err(last'.arg))
                    ELSE delivered[s]]_vars

\* Two sinks were registered, the second in place of the first; notify_error
\* resolved the second, and the first was dropped without an outcome.
C29_Witness ==
    /\ sinks = 2
    /\ tx_dropped = {1}
    /\ delivered[1] = <<>>
    /\ last.op = "notify_error"
    /\ delivered[2] = <<Err(last.arg)>>
    /\ response_tx = NoSink

============================================================================
